---- MODULE Spec2Model ----
(***************************************************************************)
(* CmafPacketyzer (publishers/cmaf/cmaf_packetyzer.cpp): the chunked CMAF  *)
(* packetizer.  One object with a video and an audio track; every track    *)
(* has a chunk writer, a sequence number and a last-seen timestamp; the    *)
(* manifest cache and the streaming-started flag are shared.               *)
(*                                                                         *)
(* The operations of the class are operators from the object (a record     *)
(* with the member names of the source) to the object after the call and   *)
(* the value returned; the actions at the end apply them to the state.     *)
(* The base class DashPacketyzer and the class CmafChunkWriter are not     *)
(* part of the source tree at hand: SetSegmentData, SetPlayList,           *)
(* AppendVideoFrameInternal, AppendAudioFrameInternal and the writer are   *)
(* modelled from the specification's sections 3 and 4.                     *)
(*                                                                         *)
(* The values the object is configured with come through cfg::Preprocess   *)
(* (config/engine/data_source.cpp); its replacement of the ${env:...}      *)
(* macros, PreprocessForEnv and GetEnv, is modelled on strings written as  *)
(* sequences of characters.                                                *)
(***************************************************************************)
EXTENDS Integers, Sequences, FiniteSets, TLC

\* ---------------------------------------------------------------- bounds
\* Largest presentation timestamp a frame carries.
MaxTimestamp == 1
\* Calls on a track are explored while its sequence number is below this.
MaxSequence == 3

\* A configuration value is written as at most this many pieces, each a
\* text or a macro.
MaxPieces == 3

\* The segment count the constructor hands to DashPacketyzer: one fragment
\* per segment, and one segment record retained per track.
SegmentCount == 1

\* Durations of a frame, in seconds, and readings of the wall clock.
Durations == {1, 2}
Times == {0, 1}

\* Configurations explored.
SegmentDurations == {1, 2, 3}
FrameRates == {0, 1, 16, 24, 25, 30, 60}
SampleRates == {0, 512, 1023, 1024, 8000, 44100, 48000}

VARIABLES
    video_track,            \* TRUE iff _video_track != nullptr
    audio_track,            \* TRUE iff _audio_track != nullptr
    chunked_transfer,       \* TRUE iff _chunked_transfer != nullptr
    segment_duration,       \* _segment_duration, seconds
    frame_rate,             \* _video_track->GetFrameRate()
    sample_rate,            \* _audio_track->GetSampleRate()
    video_chunk_writer,     \* *_video_chunk_writer, or NoWriter
    audio_chunk_writer,     \* *_audio_chunk_writer, or NoWriter
    video_sequence_number,  \* _video_sequence_number
    audio_sequence_number,  \* _audio_sequence_number
    last_video_pts,         \* _last_video_pts
    last_audio_pts,         \* _last_audio_pts
    video_segments,         \* stored video segment records, oldest first
    audio_segments,         \* stored audio segment records, oldest first
    streaming_start,        \* _streaming_start
    play_list,              \* _play_list, the cached manifest
    out,                    \* what the last call did outside the object, in order:
                            \* records handed to the storage and calls made on the sink
    ret,                    \* the last call, its frame and what it returned
    video_finalized,        \* history: file names of the video records stored, in order
    audio_finalized,        \* history: file names of the audio records stored, in order
    video_appended,         \* history: timestamp of the last video frame accepted, or -1
    audio_appended,         \* history: timestamp of the last audio frame accepted, or -1
    chunks_pushed,          \* history: per track, the chunk payloads pushed to the sink
                            \* since the writer was last cleared, in order
    running,                \* the call that is followed statement by statement: its
                            \* position and its locals, or Idle
    environ,                \* the environment of the process: for every name, the
                            \* string std::getenv returns, or null
    host_name,              \* what gethostname writes, or null when it fails
    preprocessed            \* a configuration value: the pieces it is written as,
                            \* and once PreprocessForEnv has been called with it,
                            \* the string passed and the string returned

vars == <<video_track, audio_track, chunked_transfer, segment_duration, frame_rate,
          sample_rate, video_chunk_writer, audio_chunk_writer, video_sequence_number,
          audio_sequence_number, last_video_pts, last_audio_pts, video_segments,
          audio_segments, streaming_start, play_list, out, ret, video_finalized,
          audio_finalized, video_appended, audio_appended, chunks_pushed,
          running, environ, host_name, preprocessed>>

\* The object the operations work on, at the start of a call made when the
\* wall clock reads now.
This(now) ==
    [video_track |-> video_track, audio_track |-> audio_track,
     chunked_transfer |-> chunked_transfer, segment_duration |-> segment_duration,
     frame_rate |-> frame_rate, sample_rate |-> sample_rate,
     video_chunk_writer |-> video_chunk_writer, audio_chunk_writer |-> audio_chunk_writer,
     video_sequence_number |-> video_sequence_number,
     audio_sequence_number |-> audio_sequence_number,
     last_video_pts |-> last_video_pts, last_audio_pts |-> last_audio_pts,
     video_segments |-> video_segments, audio_segments |-> audio_segments,
     streaming_start |-> streaming_start, play_list |-> play_list,
     clock |-> now, out |-> <<>>]

\* ------------------------------------------------------------ file names
SegmentPrefix == "prefix"
CMAF_MPD_VIDEO_FULL_SUFFIX == "_video.m4s"
CMAF_MPD_AUDIO_FULL_SUFFIX == "_audio.m4s"

\* FormatString("%s_%u%s", prefix, sequence number, suffix).  The sequence
\* numbers explored stay far below the 32 bits of %u.
FormatFileName(prefix, number, suffix) ==
    [prefix |-> prefix, number |-> number, suffix |-> suffix]

\* The video case written with the audio suffix.
GetFileName_SwappedSuffix(s, media_type) ==
    IF media_type = "Video"
    THEN FormatFileName(SegmentPrefix, s.video_sequence_number, CMAF_MPD_AUDIO_FULL_SUFFIX)
    ELSE FormatFileName(SegmentPrefix, s.audio_sequence_number, CMAF_MPD_AUDIO_FULL_SUFFIX)

\* The video case written with the audio counter.
GetFileName_AudioCounter(s, media_type) ==
    IF media_type = "Video"
    THEN FormatFileName(SegmentPrefix, s.audio_sequence_number, CMAF_MPD_VIDEO_FULL_SUFFIX)
    ELSE FormatFileName(SegmentPrefix, s.audio_sequence_number, CMAF_MPD_AUDIO_FULL_SUFFIX)

GetFileName(s, media_type) ==
    IF media_type = "Video"
    THEN FormatFileName(SegmentPrefix, s.video_sequence_number, CMAF_MPD_VIDEO_FULL_SUFFIX)
    ELSE FormatFileName(SegmentPrefix, s.audio_sequence_number, CMAF_MPD_AUDIO_FULL_SUFFIX)

\* ---------------------------------------------------------- chunk writer
\* CmafChunkWriter in chunked mode: the samples since the last Clear, the
\* chunk payloads emitted since then, and the samples no chunk covers yet.
NoWriter == [null |-> TRUE]

EmptyWriter ==
    [sample_count |-> 0, start_timestamp |-> 0, segment_duration |-> 0,
     chunks |-> <<>>, pending |-> <<>>]

\* The "no payload" result of AppendSample (nullptr).
NoChunk == <<>>

\* AppendSample: the writer after the sample is added.  emit says whether
\* this call produces a chunk payload; the payload covers the samples added
\* since the last emission.
AppendSampleWriter(w, sample, emit) ==
    [sample_count |-> w.sample_count + 1,
     start_timestamp |-> IF w.sample_count = 0 THEN sample.timestamp ELSE w.start_timestamp,
     segment_duration |-> w.segment_duration + sample.duration,
     chunks |-> IF emit THEN Append(w.chunks, Append(w.pending, sample)) ELSE w.chunks,
     pending |-> IF emit THEN <<>> ELSE Append(w.pending, sample)]

\* AppendSample: the payload returned, NoChunk for none.
AppendSampleChunk(w, sample, emit) ==
    IF emit THEN Append(w.pending, sample) ELSE NoChunk

RECURSIVE Concat(_)
Concat(seqs) ==
    IF seqs = <<>> THEN <<>> ELSE Head(seqs) \o Concat(Tail(seqs))

\* GetChunkedSegment: the concatenation of the chunks emitted since Clear.
GetChunkedSegment(w) == Concat(w.chunks)

Clear(w) == EmptyWriter

\* -------------------------------------------------------------- manifest
\* A number written with std::fixed << std::setprecision(3): the rational
\* num/den (den > 0) in thousandths, rounded to the nearest thousandth, an
\* exact tie to the even digit.
Fixed3(num, den) ==
    LET n == 1000 * num
        q == n \div den
        r == n % den
    IN  IF 2 * r < den THEN q
        ELSE IF 2 * r > den THEN q + 1
        ELSE IF q % 2 = 0 THEN q ELSE q + 1

\* The "%s" the rendered text carries as the value of UTCTiming, and the
\* time that FormatString puts in its place.
Placeholder == <<>>

TimeText(time) == <<time>>

NoAdaptationSet == [present |-> FALSE, availabilityTimeOffset |-> 0, rate |-> 0]

NoPlayList ==
    [rendered |-> FALSE, publishTime |-> 0, video |-> NoAdaptationSet,
     audio |-> NoAdaptationSet, utcTiming |-> Placeholder]

\* availability_time_offset of the video adaptation set, as the rational
\* <<numerator, denominator>>.
\* 1 / rate taken in integer arithmetic.
VideoAvailabilityTimeOffset_IntegerDivision(rate, duration) ==
    IF rate # 0 THEN <<duration - (1 \div rate), 1>> ELSE <<duration, 1>>

VideoAvailabilityTimeOffset(rate, duration) ==
    IF rate # 0 THEN <<duration * rate - 1, rate>> ELSE <<duration, 1>>

\* availability_time_offset of the audio adaptation set; the guard divides
\* the integer sample rate by 1024.
AudioAvailabilityTimeOffset(rate, duration) ==
    IF (rate \div 1024) # 0 THEN <<duration * rate - 1024, rate>> ELSE <<duration, 1>>

VideoAdaptationSet(s) ==
    LET availability_time_offset == VideoAvailabilityTimeOffset(s.frame_rate, s.segment_duration)
    IN  [present |-> TRUE,
         availabilityTimeOffset |-> Fixed3(availability_time_offset[1], availability_time_offset[2]),
         rate |-> s.frame_rate]

AudioAdaptationSet(s) ==
    LET availability_time_offset == AudioAvailabilityTimeOffset(s.sample_rate, s.segment_duration)
    IN  [present |-> TRUE,
         availabilityTimeOffset |-> Fixed3(availability_time_offset[1], availability_time_offset[2]),
         rate |-> s.sample_rate]

\* SetPlayList: the cache takes the text.
SetPlayList(s, text) == [s EXCEPT !.play_list = text]

\* The text UpdatePlayList renders from the object.
RenderPlayList(s) ==
    [rendered |-> TRUE,
     publishTime |-> s.clock,
     video |-> IF s.video_sequence_number > 1 THEN VideoAdaptationSet(s) ELSE NoAdaptationSet,
     audio |-> IF s.audio_sequence_number > 1 THEN AudioAdaptationSet(s) ELSE NoAdaptationSet,
     utcTiming |-> Placeholder]

\* The "Time difference: A-V" line of the log, in milliseconds.
TimeDifference(s) ==
    LET video_pts == s.last_video_pts * 1000
        audio_pts == s.last_audio_pts * 1000
    IN  [event |-> "TimeDifference", difference |-> audio_pts - video_pts,
         audio_pts |-> audio_pts, video_pts |-> video_pts]

\* The time difference is logged once both tracks have a last timestamp.
LogTimeDifference(s) ==
    IF s.last_video_pts >= 0 /\ s.last_audio_pts >= 0
    THEN [s EXCEPT !.out = Append(@, TimeDifference(s))]
    ELSE s

\* UpdatePlayList listing the video track from sequence number 1 on.
UpdatePlayList_VideoFromOne(s) ==
    LET play_list_ ==
            [rendered |-> TRUE,
             publishTime |-> s.clock,
             video |-> IF s.video_sequence_number >= 1 THEN VideoAdaptationSet(s) ELSE NoAdaptationSet,
             audio |-> IF s.audio_sequence_number > 1 THEN AudioAdaptationSet(s) ELSE NoAdaptationSet,
             utcTiming |-> Placeholder]
        set == SetPlayList(s, play_list_)
    IN  IF s.last_video_pts >= 0 /\ s.last_audio_pts >= 0
        THEN [set EXCEPT !.out = Append(@, TimeDifference(s))]
        ELSE set

\* UpdatePlayList logging the time difference without the video timestamp.
UpdatePlayList_NoVideoPtsTest(s) ==
    LET set == SetPlayList(s, RenderPlayList(s))
    IN  IF s.last_audio_pts >= 0
        THEN [set EXCEPT !.out = Append(@, TimeDifference(s))]
        ELSE set

UpdatePlayList(s) == LogTimeDifference(SetPlayList(s, RenderPlayList(s)))

GetPlayList_NoStartCheck(s, current_time) ==
    [ok |-> TRUE, play_list |-> [s.play_list EXCEPT !.utcTiming = TimeText(current_time)]]

\* GetPlayList returning the cached text as it is.
GetPlayList_NoFormatString(s, current_time) ==
    IF s.streaming_start = FALSE
    THEN [ok |-> FALSE, play_list |-> NoPlayList]
    ELSE [ok |-> TRUE, play_list |-> s.play_list]

\* GetPlayList: FormatString puts the current time in the place of "%s".
GetPlayList(s, current_time) ==
    IF s.streaming_start = FALSE
    THEN [ok |-> FALSE, play_list |-> NoPlayList]
    ELSE [ok |-> TRUE, play_list |-> [s.play_list EXCEPT !.utcTiming = TimeText(current_time)]]

\* ------------------------------------------------------------- recording
Event(name, file_name, is_video, data) ==
    [event |-> name, file_name |-> file_name, is_video |-> is_video, data |-> data]

OnCmafChunkDataPush(s, file_name, is_video, chunk_data) ==
    [s EXCEPT !.out = Append(@, Event("OnCmafChunkDataPush", file_name, is_video, chunk_data))]

OnCmafChunkedComplete(s, file_name, is_video) ==
    [s EXCEPT !.out = Append(@, Event("OnCmafChunkedComplete", file_name, is_video, <<>>))]

\* ------------------------------------------------------- segment records
GetFileType(file_name) ==
    IF file_name.suffix = CMAF_MPD_VIDEO_FULL_SUFFIX THEN "VideoSegment"
    ELSE IF file_name.suffix = CMAF_MPD_AUDIO_FULL_SUFFIX THEN "AudioSegment"
    ELSE "Unknown"

\* The retention window: the newest SegmentCount records.
Retain(records) ==
    IF Len(records) > SegmentCount
    THEN SubSeq(records, Len(records) - SegmentCount + 1, Len(records))
    ELSE records

\* The storage's part of SetSegmentData: the call names no track, the file
\* name tells the kind.  accept is the storage's answer.  An accepted record
\* is stored, the track's sequence number advances and streaming has
\* started; a rejected one changes nothing in the object.
StoreSegmentData(s, file_name, duration, timestamp, data, accept) ==
    LET type == GetFileType(file_name)
        record == [file_name |-> file_name, duration |-> duration,
                   timestamp |-> timestamp, data |-> data]
        stored ==
            IF type = "VideoSegment"
            THEN [s EXCEPT !.video_segments = Retain(Append(@, record)),
                           !.video_sequence_number = @ + 1]
            ELSE [s EXCEPT !.audio_segments = Retain(Append(@, record)),
                           !.audio_sequence_number = @ + 1]
        started == [stored EXCEPT
                       !.streaming_start = TRUE,
                       !.out = Append(@, Event("SetSegmentData", file_name,
                                                 type = "VideoSegment", data))]
        refused == [s EXCEPT !.out = Append(@, Event("Rejected", file_name,
                                                     type = "VideoSegment", data))]
    IN  IF accept /\ type # "Unknown"
        THEN [st |-> started, ok |-> TRUE]
        ELSE [st |-> refused, ok |-> FALSE]

\* SetSegmentData: after an accepted record the manifest is rendered again.
SetSegmentData(s, file_name, duration, timestamp, data, accept) ==
    LET set == StoreSegmentData(s, file_name, duration, timestamp, data, accept)
    IN  IF set.ok THEN [st |-> UpdatePlayList(set.st), ok |-> TRUE] ELSE set

\* ------------------------------------------------------------ operations
\* The video callback without the update of _last_video_pts.
VideoDataCallback_NoLastPts(s, data, emit) ==
    LET chunk_data == AppendSampleChunk(s.video_chunk_writer, data, emit)
        appended == [s EXCEPT !.video_chunk_writer = AppendSampleWriter(@, data, emit)]
    IN  IF chunk_data # NoChunk /\ s.chunked_transfer
        THEN OnCmafChunkDataPush(appended, GetFileName(appended, "Video"), TRUE, chunk_data)
        ELSE appended

\* The video callback with the update of _last_video_pts inside the if.
VideoDataCallback_LastPtsOnPush(s, data, emit) ==
    LET chunk_data == AppendSampleChunk(s.video_chunk_writer, data, emit)
        appended == [s EXCEPT !.video_chunk_writer = AppendSampleWriter(@, data, emit)]
    IN  IF chunk_data # NoChunk /\ s.chunked_transfer
        THEN [OnCmafChunkDataPush(appended, GetFileName(appended, "Video"), TRUE, chunk_data)
                 EXCEPT !.last_video_pts = data.timestamp]
        ELSE appended

\* The video callback writing the timestamp to _last_audio_pts.
VideoDataCallback_LastAudioPts(s, data, emit) ==
    LET chunk_data == AppendSampleChunk(s.video_chunk_writer, data, emit)
        appended == [s EXCEPT !.video_chunk_writer = AppendSampleWriter(@, data, emit)]
        pushed == IF chunk_data # NoChunk /\ s.chunked_transfer
                  THEN OnCmafChunkDataPush(appended, GetFileName(appended, "Video"), TRUE, chunk_data)
                  ELSE appended
    IN  [pushed EXCEPT !.last_audio_pts = data.timestamp]

\* The callback AppendVideoFrame hands to AppendVideoFrameInternal.
VideoDataCallback(s, data, emit) ==
    LET chunk_data == AppendSampleChunk(s.video_chunk_writer, data, emit)
        appended == [s EXCEPT !.video_chunk_writer = AppendSampleWriter(@, data, emit)]
        pushed == IF chunk_data # NoChunk /\ s.chunked_transfer
                  THEN OnCmafChunkDataPush(appended, GetFileName(appended, "Video"), TRUE, chunk_data)
                  ELSE appended
    IN  [pushed EXCEPT !.last_video_pts = data.timestamp]

\* The audio callback naming the video file.
AudioDataCallback_VideoName(s, data, emit) ==
    LET chunk_data == AppendSampleChunk(s.audio_chunk_writer, data, emit)
        appended == [s EXCEPT !.audio_chunk_writer = AppendSampleWriter(@, data, emit)]
        pushed == IF chunk_data # NoChunk /\ s.chunked_transfer
                  THEN OnCmafChunkDataPush(appended, GetFileName(appended, "Video"), FALSE, chunk_data)
                  ELSE appended
    IN  [pushed EXCEPT !.last_audio_pts = data.timestamp]

\* The audio callback handing the sample to the writer only with a sink.
AudioDataCallback_SampleForSink(s, data, emit) ==
    LET chunk_data == AppendSampleChunk(s.audio_chunk_writer, data, emit)
        appended == [s EXCEPT !.audio_chunk_writer = AppendSampleWriter(@, data, emit)]
        pushed == IF s.chunked_transfer
                  THEN IF chunk_data # NoChunk
                       THEN OnCmafChunkDataPush(appended, GetFileName(appended, "Audio"), FALSE,
                                                chunk_data)
                       ELSE appended
                  ELSE s
    IN  [pushed EXCEPT !.last_audio_pts = data.timestamp]

\* The callback AppendAudioFrame hands to AppendAudioFrameInternal.
AudioDataCallback(s, data, emit) ==
    LET chunk_data == AppendSampleChunk(s.audio_chunk_writer, data, emit)
        appended == [s EXCEPT !.audio_chunk_writer = AppendSampleWriter(@, data, emit)]
        pushed == IF chunk_data # NoChunk /\ s.chunked_transfer
                  THEN OnCmafChunkDataPush(appended, GetFileName(appended, "Audio"), FALSE, chunk_data)
                  ELSE appended
    IN  [pushed EXCEPT !.last_audio_pts = data.timestamp]

\* WriteVideoSegment going on to the sink whatever SetSegmentData returned.
WriteVideoSegment_IgnoreResult(s, accept) ==
    IF s.video_chunk_writer.sample_count = 0
    THEN [st |-> s, ok |-> TRUE]
    ELSE LET file_name == GetFileName(s, "Video")
             start_timestamp == s.video_chunk_writer.start_timestamp
             segment_duration_ == s.video_chunk_writer.segment_duration
             segment_data == GetChunkedSegment(s.video_chunk_writer)
             cleared == [s EXCEPT !.video_chunk_writer = Clear(@)]
             set == SetSegmentData(cleared, file_name, segment_duration_, start_timestamp,
                                   segment_data, accept)
         IN  [st |-> IF set.st.chunked_transfer
                     THEN OnCmafChunkedComplete(set.st, file_name, TRUE)
                     ELSE set.st,
              ok |-> TRUE]

\* WriteVideoSegment without the test for an empty writer.
WriteVideoSegment_NoEmptyCheck(s, accept) ==
    LET file_name == GetFileName(s, "Video")
        start_timestamp == s.video_chunk_writer.start_timestamp
        segment_duration_ == s.video_chunk_writer.segment_duration
        segment_data == GetChunkedSegment(s.video_chunk_writer)
        cleared == [s EXCEPT !.video_chunk_writer = Clear(@)]
        set == SetSegmentData(cleared, file_name, segment_duration_, start_timestamp,
                              segment_data, accept)
    IN  IF set.ok = FALSE
        THEN [st |-> set.st, ok |-> FALSE]
        ELSE [st |-> IF set.st.chunked_transfer
                     THEN OnCmafChunkedComplete(set.st, file_name, TRUE)
                     ELSE set.st,
              ok |-> TRUE]

\* WriteVideoSegment clearing the writer before it takes the payload.
WriteVideoSegment_ClearFirst(s, accept) ==
    IF s.video_chunk_writer.sample_count = 0
    THEN [st |-> s, ok |-> TRUE]
    ELSE LET file_name == GetFileName(s, "Video")
             start_timestamp == s.video_chunk_writer.start_timestamp
             segment_duration_ == s.video_chunk_writer.segment_duration
             cleared == [s EXCEPT !.video_chunk_writer = Clear(@)]
             segment_data == GetChunkedSegment(cleared.video_chunk_writer)
             set == SetSegmentData(cleared, file_name, segment_duration_, start_timestamp,
                                   segment_data, accept)
         IN  IF set.ok = FALSE
             THEN [st |-> set.st, ok |-> FALSE]
             ELSE [st |-> IF set.st.chunked_transfer
                          THEN OnCmafChunkedComplete(set.st, file_name, TRUE)
                          ELSE set.st,
                   ok |-> TRUE]

WriteVideoSegment(s, accept) ==
    IF s.video_chunk_writer.sample_count = 0
    THEN [st |-> s, ok |-> TRUE]
    ELSE LET file_name == GetFileName(s, "Video")
             start_timestamp == s.video_chunk_writer.start_timestamp
             segment_duration_ == s.video_chunk_writer.segment_duration
             segment_data == GetChunkedSegment(s.video_chunk_writer)
             cleared == [s EXCEPT !.video_chunk_writer = Clear(@)]
             set == SetSegmentData(cleared, file_name, segment_duration_, start_timestamp,
                                   segment_data, accept)
         IN  IF set.ok = FALSE
             THEN [st |-> set.st, ok |-> FALSE]
             ELSE [st |-> IF set.st.chunked_transfer
                          THEN OnCmafChunkedComplete(set.st, file_name, TRUE)
                          ELSE set.st,
                   ok |-> TRUE]

\* WriteAudioSegment telling the sink the segment is a video segment.
WriteAudioSegment_VideoFlag(s, accept) ==
    IF s.audio_chunk_writer.sample_count = 0
    THEN [st |-> s, ok |-> TRUE]
    ELSE LET file_name == GetFileName(s, "Audio")
             start_timestamp == s.audio_chunk_writer.start_timestamp
             segment_duration_ == s.audio_chunk_writer.segment_duration
             segment_data == GetChunkedSegment(s.audio_chunk_writer)
             cleared == [s EXCEPT !.audio_chunk_writer = Clear(@)]
             set == SetSegmentData(cleared, file_name, segment_duration_, start_timestamp,
                                   segment_data, accept)
         IN  IF set.ok = FALSE
             THEN [st |-> set.st, ok |-> FALSE]
             ELSE [st |-> IF set.st.chunked_transfer
                          THEN OnCmafChunkedComplete(set.st, file_name, TRUE)
                          ELSE set.st,
                   ok |-> TRUE]

WriteAudioSegment(s, accept) ==
    IF s.audio_chunk_writer.sample_count = 0
    THEN [st |-> s, ok |-> TRUE]
    ELSE LET file_name == GetFileName(s, "Audio")
             start_timestamp == s.audio_chunk_writer.start_timestamp
             segment_duration_ == s.audio_chunk_writer.segment_duration
             segment_data == GetChunkedSegment(s.audio_chunk_writer)
             cleared == [s EXCEPT !.audio_chunk_writer = Clear(@)]
             set == SetSegmentData(cleared, file_name, segment_duration_, start_timestamp,
                                   segment_data, accept)
         IN  IF set.ok = FALSE
             THEN [st |-> set.st, ok |-> FALSE]
             ELSE [st |-> IF set.st.chunked_transfer
                          THEN OnCmafChunkedComplete(set.st, file_name, FALSE)
                          ELSE set.st,
                   ok |-> TRUE]

\* AppendVideoFrameInternal: a frame older than the last one of the track is
\* refused; a fragment that has reached the segment duration is finalized
\* first; then the callback takes the sample.  Durations are counted in
\* seconds (a time base of one tick per second).
AppendVideoFrameInternal(s, frame, current_segment_duration, emit, accept) ==
    IF frame.timestamp < s.last_video_pts
    THEN [st |-> s, ok |-> FALSE]
    ELSE LET closed == IF current_segment_duration >= s.segment_duration
                       THEN WriteVideoSegment(s, accept).st
                       ELSE s
         IN  [st |-> VideoDataCallback(closed, frame, emit), ok |-> TRUE]

AppendAudioFrameInternal(s, frame, current_segment_duration, emit, accept) ==
    IF frame.timestamp < s.last_audio_pts
    THEN [st |-> s, ok |-> FALSE]
    ELSE LET closed == IF current_segment_duration >= s.segment_duration
                       THEN WriteAudioSegment(s, accept).st
                       ELSE s
         IN  [st |-> AudioDataCallback(closed, frame, emit), ok |-> TRUE]

\* AppendVideoFrame writing the segment before the frame is looked at.
AppendVideoFrame_WriteFirst(s, frame, emit, accept) ==
    LET written == WriteVideoSegment(s, accept).st
    IN  AppendVideoFrameInternal(written, frame, written.video_chunk_writer.segment_duration,
                                 emit, accept)

\* AppendVideoFrame handing over the writer's sample count for its duration.
AppendVideoFrame_SampleCount(s, frame, emit, accept) ==
    AppendVideoFrameInternal(s, frame, s.video_chunk_writer.sample_count, emit, accept)

AppendVideoFrame(s, frame, emit, accept) ==
    AppendVideoFrameInternal(s, frame, s.video_chunk_writer.segment_duration, emit, accept)

AppendAudioFrame(s, frame, emit, accept) ==
    AppendAudioFrameInternal(s, frame, s.audio_chunk_writer.segment_duration, emit, accept)

\* ---------------------------------------------------- configuration values
\* config/engine/data_source.cpp.  A string is the sequence of its
\* characters; a pointer to a string is null or holds one.
Null == [null |-> TRUE]

Str(chars) == [null |-> FALSE, str |-> chars]

HOSTNAME == <<"H", "O", "S", "T", "N", "A", "M", "E">>

\* std::getenv(key) in the environment e.
Getenv(e, key) == IF key \in DOMAIN e.environ THEN e.environ[key] ELSE Null

\* GetEnv(key, default_value, &is_default_value): the string returned and
\* what is_default_value holds after the call.
GetEnv(e, key, default_value, is_default_value) ==
    LET env == Getenv(e, key)
    IN  IF env # Null
        THEN [value |-> env.str, is_default_value |-> is_default_value]
        ELSE IF key = HOSTNAME /\ e.host_name # Null
             THEN [value |-> e.host_name.str, is_default_value |-> is_default_value]
             ELSE IF default_value # <<>>
                  THEN [value |-> default_value, is_default_value |-> TRUE]
                  ELSE [value |-> <<>>, is_default_value |-> is_default_value]

\* The characters the regular expression \$\{env:([^}]*)\} begins with.
EnvPrefix == <<"$", "{", "e", "n", "v", ":">>

Least(S) == CHOOSE n \in S : \A m \in S : n <= m

\* The places of character c in str from place start on.
PlacesOf(str, start, c) == {i \in start..Len(str) : str[i] = c}

NoMatch == [matched |-> FALSE]

\* The regular expression with .* for [^}]*: the match runs to the last
\* closing brace.
RegexSearch_ToLastBrace(str, start) ==
    LET begins == {p \in start..(Len(str) - Len(EnvPrefix)) :
                      /\ SubSeq(str, p, p + Len(EnvPrefix) - 1) = EnvPrefix
                      /\ PlacesOf(str, p + Len(EnvPrefix), "}") # {}}
    IN  IF begins = {}
        THEN NoMatch
        ELSE LET first == Least(begins)
                 braces == PlacesOf(str, first + Len(EnvPrefix), "}")
                 brace == CHOOSE n \in braces : \A m \in braces : m <= n
             IN  [matched |-> TRUE, first |-> first, second |-> brace + 1,
                  token |-> SubSeq(str, first + Len(EnvPrefix), brace - 1)]

\* What std::sregex_iterator finds from place start on: the leftmost place
\* where the prefix is followed, after characters other than a closing
\* brace, by a closing brace.  first is the place of the match, second the
\* place after it, token the first group.
RegexSearch(str, start) ==
    LET begins == {p \in start..(Len(str) - Len(EnvPrefix)) :
                      /\ SubSeq(str, p, p + Len(EnvPrefix) - 1) = EnvPrefix
                      /\ PlacesOf(str, p + Len(EnvPrefix), "}") # {}}
    IN  IF begins = {}
        THEN NoMatch
        ELSE LET first == Least(begins)
                 brace == Least(PlacesOf(str, first + Len(EnvPrefix), "}"))
             IN  [matched |-> TRUE, first |-> first, second |-> brace + 1,
                  token |-> SubSeq(str, first + Len(EnvPrefix), brace - 1)]

\* The body of the while loop, for the match the iterator is at: env_key
\* and default_value are the token split at its first colon.
RECURSIVE EnvLoop(_, _, _, _)
EnvLoop(e, str, start, result) ==
    LET matches == RegexSearch(str, start)
    IN  IF ~matches.matched
        THEN result \o SubSeq(str, start, Len(str))
        ELSE LET token == matches.token
                 colons == PlacesOf(token, 1, ":")
                 position == IF colons = {} THEN 0 ELSE Least(colons)
                 default_value == IF position # 0
                                  THEN SubSeq(token, position + 1, Len(token)) ELSE <<>>
                 env_key == IF position # 0 THEN SubSeq(token, 1, position - 1) ELSE token
                 value == GetEnv(e, env_key, default_value, FALSE).value
             IN  EnvLoop(e, str, matches.second,
                         result \o SubSeq(str, start, matches.first - 1) \o value)

PreprocessForEnv(e, value) == EnvLoop(e, value, 1, <<>>)

\* ------------------------------------------------------------------ state
Frames == [timestamp : 0..MaxTimestamp, duration : Durations]

FirstFrames == [timestamp : {0}, duration : {1}]

ShortFrames == [timestamp : 0..MaxTimestamp, duration : {1}]

LongFrames == [timestamp : 0..MaxTimestamp, duration : {2}]

NoFrame == [timestamp |-> -1, duration |-> 0]

NoTime == -1

NoCall ==
    [op |-> "none", ok |-> TRUE, frame |-> NoFrame, time |-> NoTime, play_list |-> NoPlayList]

Returned(op, ok, frame) ==
    [op |-> op, ok |-> ok, frame |-> frame, time |-> NoTime, play_list |-> NoPlayList]

NoFileName == FormatFileName("", 0, "")

\* No call is followed statement by statement.
Idle ==
    [pc |-> "idle", op |-> "none", is_video |-> FALSE, frame |-> NoFrame, emit |-> FALSE,
     file_name |-> NoFileName, start_timestamp |-> 0, segment_duration |-> 0,
     segment_data |-> <<>>, play_list |-> NoPlayList]

\* The object after the constructor, for every configuration with a track.
Constructed ==
    /\ video_track \in BOOLEAN
    /\ audio_track \in BOOLEAN
    /\ video_track \/ audio_track
    /\ chunked_transfer \in BOOLEAN
    /\ video_chunk_writer = IF video_track THEN EmptyWriter ELSE NoWriter
    /\ audio_chunk_writer = IF audio_track THEN EmptyWriter ELSE NoWriter
    /\ video_sequence_number = 1
    /\ audio_sequence_number = 1
    /\ last_video_pts = -1
    /\ last_audio_pts = -1
    /\ video_segments = <<>>
    /\ audio_segments = <<>>
    /\ streaming_start = FALSE
    /\ play_list = NoPlayList
    /\ out = <<>>
    /\ ret = NoCall
    /\ video_finalized = <<>>
    /\ audio_finalized = <<>>
    /\ video_appended = -1
    /\ audio_appended = -1
    /\ chunks_pushed = [video |-> <<>>, audio |-> <<>>]
    /\ running = Idle

\* The environment, as far as a configuration value can name it.
K == <<"K">>

EnvKeys == {K, HOSTNAME}

\* No configuration value has been written or preprocessed.
NotPreprocessed == [pieces |-> <<>>, called |-> FALSE, value |-> <<>>, result |-> <<>>]

\* The configuration has been loaded: the object's calls read neither the
\* environment nor the configuration's strings.
Resolved ==
    /\ environ = [key \in EnvKeys |-> Null]
    /\ host_name = Null
    /\ preprocessed = NotPreprocessed

\* One track, with and without a sink.
Init ==
    /\ Constructed
    /\ Resolved
    /\ video_track # audio_track
    /\ segment_duration = 2
    /\ frame_rate = 30
    /\ sample_rate = 44100

\* Both tracks, with and without a sink.
InitBoth ==
    /\ Constructed
    /\ Resolved
    /\ video_track /\ audio_track
    /\ segment_duration = 2
    /\ frame_rate = 30
    /\ sample_rate = 44100

\* Both tracks and a sink.
InitBothSink ==
    /\ InitBoth
    /\ chunked_transfer = TRUE

\* One track without a sink, for every segment duration and every rate of
\* the track.
InitManifest ==
    /\ Constructed
    /\ Resolved
    /\ video_track # audio_track
    /\ chunked_transfer = FALSE
    /\ segment_duration \in SegmentDurations
    /\ frame_rate \in (IF video_track THEN FrameRates ELSE {0})
    /\ sample_rate \in (IF audio_track THEN SampleRates ELSE {0})

\* The state takes the object s.
Becomes(s) ==
    /\ video_chunk_writer' = s.video_chunk_writer
    /\ audio_chunk_writer' = s.audio_chunk_writer
    /\ video_sequence_number' = s.video_sequence_number
    /\ audio_sequence_number' = s.audio_sequence_number
    /\ last_video_pts' = s.last_video_pts
    /\ last_audio_pts' = s.last_audio_pts
    /\ video_segments' = s.video_segments
    /\ audio_segments' = s.audio_segments
    /\ streaming_start' = s.streaming_start
    /\ play_list' = s.play_list
    /\ out' = s.out
    /\ UNCHANGED <<video_track, audio_track, chunked_transfer, segment_duration,
                   frame_rate, sample_rate, environ, host_name, preprocessed>>

\* The file names of the records the storage took during a call.
Stored(events) ==
    LET taken == SelectSeq(events, LAMBDA e : e.event = "SetSegmentData")
    IN  [i \in 1..Len(taken) |-> taken[i].file_name]

\* The payloads pushed since the writer was last cleared, after a call that
\* did events: the writer is cleared right before a record goes to the
\* storage.
PushedAfter(before, events) ==
    LET closes == {i \in DOMAIN events : events[i].event \in {"SetSegmentData", "Rejected"}}
        last == IF closes = {} THEN 0 ELSE CHOOSE i \in closes : \A j \in closes : j <= i
        pushes == SelectSeq(SubSeq(events, last + 1, Len(events)),
                            LAMBDA e : e.event = "OnCmafChunkDataPush")
    IN  (IF last = 0 THEN before ELSE <<>>) \o [i \in 1..Len(pushes) |-> pushes[i].data]

\* A call on the video track ends with result r.
VideoCall(op, r, frame) ==
    /\ Becomes(r.st)
    /\ ret' = Returned(op, r.ok, frame)
    /\ video_finalized' = video_finalized \o Stored(r.st.out)
    /\ video_appended' = IF op = "AppendVideoFrame" /\ r.ok
                          THEN frame.timestamp ELSE video_appended
    /\ chunks_pushed' = [chunks_pushed EXCEPT !.video = PushedAfter(@, r.st.out)]
    /\ UNCHANGED <<audio_finalized, audio_appended, running>>

\* A call on the audio track ends with result r.
AudioCall(op, r, frame) ==
    /\ Becomes(r.st)
    /\ ret' = Returned(op, r.ok, frame)
    /\ audio_finalized' = audio_finalized \o Stored(r.st.out)
    /\ audio_appended' = IF op = "AppendAudioFrame" /\ r.ok
                          THEN frame.timestamp ELSE audio_appended
    /\ chunks_pushed' = [chunks_pushed EXCEPT !.audio = PushedAfter(@, r.st.out)]
    /\ UNCHANGED <<video_finalized, video_appended, running>>

\* The storage answers and the wall clock is read only in a call that
\* writes a segment: a call on a writer that holds samples, for an
\* AppendFrame one that has reached the segment duration.
Answers(writer, appending) ==
    IF writer.sample_count > 0 /\ (appending => writer.segment_duration >= segment_duration)
    THEN BOOLEAN ELSE {TRUE}

Readings(writer, appending) ==
    IF writer.sample_count > 0 /\ (appending => writer.segment_duration >= segment_duration)
    THEN Times ELSE {0}

\* The calls, with frames drawn from frames and the writer's choice to emit
\* a chunk drawn from emits.
AppendVideo(frames, emits) ==
    /\ video_track
    /\ video_sequence_number < MaxSequence
    /\ \E frame \in frames, emit \in emits, accept \in Answers(video_chunk_writer, TRUE),
          now \in Readings(video_chunk_writer, TRUE) :
          VideoCall("AppendVideoFrame", AppendVideoFrame(This(now), frame, emit, accept), frame)

AppendAudio(frames, emits) ==
    /\ audio_track
    /\ audio_sequence_number < MaxSequence
    /\ \E frame \in frames, emit \in emits, accept \in Answers(audio_chunk_writer, TRUE),
          now \in Readings(audio_chunk_writer, TRUE) :
          AudioCall("AppendAudioFrame", AppendAudioFrame(This(now), frame, emit, accept), frame)

FinalizeVideo ==
    /\ video_track
    /\ video_sequence_number < MaxSequence
    /\ \E accept \in Answers(video_chunk_writer, FALSE),
          now \in Readings(video_chunk_writer, FALSE) :
          VideoCall("WriteVideoSegment", WriteVideoSegment(This(now), accept), NoFrame)

FinalizeAudio ==
    /\ audio_track
    /\ audio_sequence_number < MaxSequence
    /\ \E accept \in Answers(audio_chunk_writer, FALSE),
          now \in Readings(audio_chunk_writer, FALSE) :
          AudioCall("WriteAudioSegment", WriteAudioSegment(This(now), accept), NoFrame)

GetManifest ==
    \E now \in Times :
        LET r == GetPlayList(This(now), now)
        IN  /\ Becomes(This(now))
            /\ ret' = [op |-> "GetPlayList", ok |-> r.ok, frame |-> NoFrame,
                       time |-> now, play_list |-> r.play_list]
            /\ UNCHANGED <<video_finalized, audio_finalized, video_appended, audio_appended,
                           chunks_pushed, running>>

Next ==
    \/ AppendVideo(Frames, BOOLEAN)
    \/ AppendAudio(Frames, BOOLEAN)
    \/ FinalizeVideo
    \/ FinalizeAudio
    \/ GetManifest

Spec == Init /\ [][Next]_vars

\* With both tracks: frames of one second, every one emitted as a chunk.
NextBoth ==
    \/ AppendVideo(ShortFrames, {TRUE})
    \/ AppendAudio(ShortFrames, {TRUE})
    \/ FinalizeVideo
    \/ FinalizeAudio
    \/ GetManifest

SpecBoth == InitBothSink /\ [][NextBoth]_vars

\* With both tracks, with and without a sink: frames of a whole segment,
\* with and without a chunk, so that every AppendFrame after the first of
\* its track writes a segment.
NextDrift ==
    \/ AppendVideo(LongFrames, BOOLEAN)
    \/ AppendAudio(LongFrames, BOOLEAN)

SpecDrift == InitBoth /\ [][NextDrift]_vars

\* For the manifest's numbers: one frame value, every one emitted.
NextManifest ==
    \/ AppendVideo(FirstFrames, {TRUE})
    \/ AppendAudio(FirstFrames, {TRUE})
    \/ FinalizeVideo
    \/ FinalizeAudio
    \/ GetManifest

SpecManifest == InitManifest /\ [][NextManifest]_vars

\* The same calls on an object with both tracks, with and without a sink.
SpecPair == InitBoth /\ [][NextManifest]_vars

\* ------------------------------------------- preprocessing of a value
\* A configuration value as it is written: pieces, each a text or a macro
\* with a key and, after a colon, a default value.  The texts hold no
\* letter v, so no macro begins in a text or in texts written one after
\* the other; a key holds no colon and no closing brace, a default value
\* no closing brace.
Text(chars) == [macro |-> FALSE, text |-> chars]

Macro(key, colon, default_value) ==
    [macro |-> TRUE, key |-> key, colon |-> colon, default_value |-> default_value]

Texts == {<<"a">>, <<"$", "}">>, <<"$", "{", "e", "n", ":">>}

DefaultValues == {<<>>, <<"d", ":", "e">>}

Pieces ==
    {Text(chars) : chars \in Texts}
        \cup {Macro(key, FALSE, <<>>) : key \in EnvKeys}
        \cup {Macro(key, TRUE, default_value) : key \in EnvKeys, default_value \in DefaultValues}

\* The characters of a piece and of a value.
Written(piece) ==
    IF piece.macro
    THEN EnvPrefix \o piece.key
             \o (IF piece.colon THEN <<":">> \o piece.default_value ELSE <<>>) \o <<"}">>
    ELSE piece.text

RECURSIVE WrittenValue(_)
WrittenValue(pieces) ==
    IF pieces = <<>> THEN <<>> ELSE Written(Head(pieces)) \o WrittenValue(Tail(pieces))

\* The environments: K is not set, is empty, or holds a text with a macro
\* in it; HOSTNAME is set or not; gethostname fails or gives a name.
Environments ==
    [K : {Null, Str(<<>>), Str(<<"x">> \o EnvPrefix \o K \o <<"}">>)},
     HOSTNAME : {Null, Str(<<"h">>)},
     host_name : {Null, Str(<<"o", "m", "e">>)}]

\* The environment GetEnv reads.
Environment == [environ |-> environ, host_name |-> host_name]

\* The configuration is being loaded, for a video track without a sink.
InitEnv ==
    /\ Constructed
    /\ video_track /\ ~audio_track /\ ~chunked_transfer
    /\ segment_duration = 2
    /\ frame_rate = 30
    /\ sample_rate = 44100
    /\ \E e \in Environments :
          /\ environ = [key \in EnvKeys |-> IF key = K THEN e.K ELSE e.HOSTNAME]
          /\ host_name = e.host_name
    /\ preprocessed = NotPreprocessed

\* What the object's variables hold while the configuration is loaded.
Unconstructed ==
    <<video_track, audio_track, chunked_transfer, segment_duration, frame_rate, sample_rate,
      video_chunk_writer, audio_chunk_writer, video_sequence_number, audio_sequence_number,
      last_video_pts, last_audio_pts, video_segments, audio_segments, streaming_start,
      play_list, out, ret, video_finalized, audio_finalized, video_appended,
      audio_appended, chunks_pushed, running>>

\* The configuration's author writes one more piece of the value.
WritesPiece ==
    /\ ~preprocessed.called
    /\ Len(preprocessed.pieces) < MaxPieces
    /\ \E piece \in Pieces :
          preprocessed' = [preprocessed EXCEPT !.pieces = Append(@, piece)]
    /\ UNCHANGED <<Unconstructed, environ, host_name>>

\* PreprocessForEnv is called with the value as written.
PreprocessValue ==
    /\ ~preprocessed.called
    /\ LET value == WrittenValue(preprocessed.pieces)
       IN  preprocessed' = [preprocessed EXCEPT
                               !.called = TRUE,
                               !.value = value,
                               !.result = PreprocessForEnv(Environment, value)]
    /\ UNCHANGED <<Unconstructed, environ, host_name>>

NextEnv ==
    \/ WritesPiece
    \/ PreprocessValue

SpecEnv == InitEnv /\ [][NextEnv]_vars

\* ------------------------------------------------ calls, step by step
\* No statement of the class takes a lock, so a call on one thread can stop
\* between any two of its statements while calls of other threads run.
\* One call is followed statement by statement (running); the calls above
\* are the other threads', each taken as a whole.
MediaType(is_video) == IF is_video THEN "Video" ELSE "Audio"

AppendOp(is_video) == IF is_video THEN "AppendVideoFrame" ELSE "AppendAudioFrame"

WriteOp(is_video) == IF is_video THEN "WriteVideoSegment" ELSE "WriteAudioSegment"

HasTrack(is_video) == IF is_video THEN video_track ELSE audio_track

SequenceNumber(is_video) ==
    IF is_video THEN video_sequence_number ELSE audio_sequence_number

Writer(s, is_video) == IF is_video THEN s.video_chunk_writer ELSE s.audio_chunk_writer

SetWriter(s, is_video, writer) ==
    IF is_video THEN [s EXCEPT !.video_chunk_writer = writer]
    ELSE [s EXCEPT !.audio_chunk_writer = writer]

LastPts(s, is_video) == IF is_video THEN s.last_video_pts ELSE s.last_audio_pts

SetLastPts(s, is_video, timestamp) ==
    IF is_video THEN [s EXCEPT !.last_video_pts = timestamp]
    ELSE [s EXCEPT !.last_audio_pts = timestamp]

\* The object at a statement of the call in progress.
Here(now) == [This(now) EXCEPT !.out = out]

\* A statement leaves the object as s and the call at run; r is the last
\* value returned.
Moves(s, run, r) ==
    /\ Becomes(s)
    /\ running' = run
    /\ ret' = r

\* WriteVideoSegment / WriteAudioSegment returns ok: a call of its own has
\* ended, an AppendFrame goes on to its callback whatever ok is.
WriteReturns(s, ok) ==
    IF running.op = WriteOp(running.is_video)
    THEN Moves(s, Idle, Returned(running.op, ok, NoFrame))
    ELSE Moves(s, [running EXCEPT !.pc = "AppendSample"], ret)

\* The callback has set the last timestamp and AppendFrame returns true.
AppendReturns(s) ==
    /\ Moves(SetLastPts(s, running.is_video, running.frame.timestamp), Idle,
             Returned(running.op, TRUE, running.frame))
    /\ video_appended' = IF running.is_video THEN running.frame.timestamp ELSE video_appended
    /\ audio_appended' = IF running.is_video THEN audio_appended ELSE running.frame.timestamp
    /\ UNCHANGED <<video_finalized, audio_finalized, chunks_pushed>>

Histories == <<video_finalized, audio_finalized, video_appended, audio_appended, chunks_pushed>>

Finalized == <<video_finalized, audio_finalized, video_appended, audio_appended>>

\* AppendVideoFrame / AppendAudioFrame is called: GetSegmentDuration() is
\* read, an older frame is refused, a fragment that has reached the segment
\* duration is written first.
CallAppendFrame(frames, emits) ==
    /\ running = Idle
    /\ \E is_video \in BOOLEAN, frame \in frames, emit \in emits :
          /\ HasTrack(is_video)
          /\ SequenceNumber(is_video) < MaxSequence
          /\ LET s == This(0)
                 due == Writer(s, is_video).segment_duration >= s.segment_duration
             IN  IF frame.timestamp < LastPts(s, is_video)
                 THEN Moves(s, Idle, Returned(AppendOp(is_video), FALSE, frame))
                 ELSE Moves(s, [Idle EXCEPT !.pc = IF due THEN "Write" ELSE "AppendSample",
                                            !.op = AppendOp(is_video),
                                            !.is_video = is_video,
                                            !.frame = frame,
                                            !.emit = emit], ret)
    /\ UNCHANGED Histories

\* WriteVideoSegment / WriteAudioSegment is called.
CallWriteSegment ==
    /\ running = Idle
    /\ \E is_video \in BOOLEAN :
          /\ HasTrack(is_video)
          /\ SequenceNumber(is_video) < MaxSequence
          /\ Moves(This(0), [Idle EXCEPT !.pc = "Write", !.op = WriteOp(is_video),
                                         !.is_video = is_video], ret)
    /\ UNCHANGED Histories

\* The test for an empty writer, the file name, the start timestamp, the
\* duration and GetChunkedSegment().
GetsChunkedSegment ==
    /\ running.pc = "Write"
    /\ LET s == Here(0)
           writer == Writer(s, running.is_video)
       IN  IF writer.sample_count = 0
           THEN WriteReturns(s, TRUE)
           ELSE Moves(s, [running EXCEPT
                             !.pc = "Clear",
                             !.file_name = GetFileName(s, MediaType(running.is_video)),
                             !.start_timestamp = writer.start_timestamp,
                             !.segment_duration = writer.segment_duration,
                             !.segment_data = GetChunkedSegment(writer)], ret)
    /\ UNCHANGED Histories

\* Clear().
Clears ==
    /\ running.pc = "Clear"
    /\ LET s == Here(0)
       IN  Moves(SetWriter(s, running.is_video, Clear(Writer(s, running.is_video))),
                 [running EXCEPT !.pc = "SetSegmentData"], ret)
    /\ chunks_pushed' = IF running.is_video THEN [chunks_pushed EXCEPT !.video = <<>>]
                  ELSE [chunks_pushed EXCEPT !.audio = <<>>]
    /\ UNCHANGED Finalized

\* SetSegmentData() up to the manifest text UpdatePlayList() has rendered.
SetsSegmentData ==
    /\ running.pc = "SetSegmentData"
    /\ \E accept \in BOOLEAN, now \in Times :
          LET set == StoreSegmentData(Here(now), running.file_name, running.segment_duration,
                                      running.start_timestamp, running.segment_data, accept)
          IN  IF set.ok
              THEN /\ Moves(set.st, [running EXCEPT !.pc = "SetPlayList",
                                                    !.play_list = RenderPlayList(set.st)], ret)
                   /\ video_finalized' = IF running.is_video
                                          THEN Append(video_finalized, running.file_name)
                                          ELSE video_finalized
                   /\ audio_finalized' = IF running.is_video
                                          THEN audio_finalized
                                          ELSE Append(audio_finalized, running.file_name)
                   /\ UNCHANGED <<video_appended, audio_appended, chunks_pushed>>
              ELSE /\ WriteReturns(set.st, FALSE)
                   /\ UNCHANGED Histories

\* SetPlayList(), the time difference, and the call of the sink's
\* OnCmafChunkedComplete() if there is a sink.
SetsPlayList ==
    /\ running.pc = "SetPlayList"
    /\ LET set == LogTimeDifference(SetPlayList(Here(0), running.play_list))
       IN  IF set.chunked_transfer
           THEN Moves(OnCmafChunkedComplete(set, running.file_name, running.is_video),
                      [running EXCEPT !.pc = "OnCmafChunkedComplete"], ret)
           ELSE WriteReturns(set, TRUE)
    /\ UNCHANGED Histories

\* The callback: AppendSample() and the call of the sink's
\* OnCmafChunkDataPush() if there is a chunk and a sink.
AppendsSample ==
    /\ running.pc = "AppendSample"
    /\ LET s == Here(0)
           writer == Writer(s, running.is_video)
           chunk_data == AppendSampleChunk(writer, running.frame, running.emit)
           appended == SetWriter(s, running.is_video,
                                 AppendSampleWriter(writer, running.frame, running.emit))
       IN  IF chunk_data # NoChunk /\ s.chunked_transfer
           THEN /\ Moves(OnCmafChunkDataPush(appended,
                                             GetFileName(appended, MediaType(running.is_video)),
                                             running.is_video, chunk_data),
                         [running EXCEPT !.pc = "OnCmafChunkDataPush"], ret)
                /\ chunks_pushed' = IF running.is_video
                              THEN [chunks_pushed EXCEPT !.video = Append(@, chunk_data)]
                              ELSE [chunks_pushed EXCEPT !.audio = Append(@, chunk_data)]
                /\ UNCHANGED Finalized
           ELSE AppendReturns(appended)

\* The sink returns from OnCmafChunkedComplete().
OnCmafChunkedCompleteReturns ==
    /\ running.pc = "OnCmafChunkedComplete"
    /\ WriteReturns(Here(0), TRUE)
    /\ UNCHANGED Histories

\* The sink returns from OnCmafChunkDataPush().
OnCmafChunkDataPushReturns ==
    /\ running.pc = "OnCmafChunkDataPush"
    /\ AppendReturns(Here(0))

\* The statements of the class itself.
Statement ==
    \/ GetsChunkedSegment
    \/ Clears
    \/ SetsSegmentData
    \/ SetsPlayList
    \/ AppendsSample

\* Two threads without a sink: a FinalizeSegment of one thread statement by
\* statement, the calls of the other thread as a whole.
InitThreads ==
    /\ InitBoth
    /\ chunked_transfer = FALSE

NextThreads ==
    \/ CallWriteSegment
    \/ GetsChunkedSegment
    \/ Clears
    \/ SetsSegmentData
    \/ SetsPlayList
    \/ AppendVideo(FirstFrames, {TRUE})
    \/ AppendAudio(FirstFrames, {TRUE})
    \/ FinalizeVideo
    \/ FinalizeAudio
    \/ GetManifest

SpecThreads == InitThreads /\ [][NextThreads]_vars

\* One thread and a sink: every call statement by statement.  The thread
\* goes on as long as it has a statement to execute; nothing makes the sink
\* return.
InitSink ==
    /\ Init
    /\ chunked_transfer = TRUE

NextSink ==
    \/ CallAppendFrame(Frames, {TRUE})
    \/ CallWriteSegment
    \/ GetsChunkedSegment
    \/ Clears
    \/ SetsSegmentData
    \/ SetsPlayList
    \/ AppendsSample
    \/ OnCmafChunkedCompleteReturns
    \/ OnCmafChunkDataPushReturns

SpecSink == InitSink /\ [][NextSink]_vars /\ WF_vars(Statement)

\* ------------------------------------------------------------ properties
EventsIn(events, name) == SelectSeq(events, LAMBDA e : e.event = name)

EventsOf(name) == EventsIn(out, name)

Places(name) == {i \in DOMAIN out : out[i].event = name}

Abs(n) == IF n < 0 THEN 0 - n ELSE n

VideoOp == ret.op \in {"AppendVideoFrame", "WriteVideoSegment"}

AudioOp == ret.op \in {"AppendAudioFrame", "WriteAudioSegment"}

\* C1: a successful FinalizeSegment that finds at least one accumulated
\* sample raises the sequence number of its track by exactly 1, and no step
\* lowers a sequence number or raises it by more than 1.
C1_SequenceAdvancesByOne ==
    [][/\ video_sequence_number' - video_sequence_number \in {0, 1}
       /\ audio_sequence_number' - audio_sequence_number \in {0, 1}
       /\ (ret'.op = "WriteVideoSegment" /\ ret'.ok /\ video_chunk_writer.sample_count > 0)
              => video_sequence_number' = video_sequence_number + 1
       /\ (ret'.op = "WriteAudioSegment" /\ ret'.ok /\ audio_chunk_writer.sample_count > 0)
              => audio_sequence_number' = audio_sequence_number + 1]_vars

\* A second successful video finalize has just advanced the sequence number.
C1_Witness ==
    /\ ret.op = "WriteVideoSegment" /\ ret.ok
    /\ Len(EventsOf("SetSegmentData")) = 1
    /\ video_sequence_number = 3

NameOf(number, suffix) == [prefix |-> SegmentPrefix, number |-> number, suffix |-> suffix]

\* C2: the k-th segment finalized on a track is named <prefix>_<k><suffix of
\* the track>, so no two finalized segments of a track share a file name.
C2_KthSegmentName ==
    /\ \A k \in 1..Len(video_finalized) :
          video_finalized[k] = NameOf(k, CMAF_MPD_VIDEO_FULL_SUFFIX)
    /\ \A k \in 1..Len(audio_finalized) :
          audio_finalized[k] = NameOf(k, CMAF_MPD_AUDIO_FULL_SUFFIX)
    /\ \A i, j \in 1..Len(video_finalized) :
          video_finalized[i] = video_finalized[j] => i = j
    /\ \A i, j \in 1..Len(audio_finalized) :
          audio_finalized[i] = audio_finalized[j] => i = j

\* Two video segments have been finalized.
C2_Witness ==
    /\ Len(video_finalized) = 2
    /\ video_finalized[2].number = 2

\* C3: FinalizeSegment on a track whose writer holds no sample returns
\* success, sends nothing to the storage or the sink and leaves the object
\* as it was.
Object ==
    <<video_chunk_writer, audio_chunk_writer, video_sequence_number, audio_sequence_number,
      last_video_pts, last_audio_pts, video_segments, audio_segments, streaming_start,
      play_list>>

C3_EmptyFinalizeIsNoOp ==
    [][/\ (ret'.op = "WriteVideoSegment" /\ video_chunk_writer.sample_count = 0)
              => (ret'.ok /\ out' = <<>> /\ Object' = Object)
       /\ (ret'.op = "WriteAudioSegment" /\ audio_chunk_writer.sample_count = 0)
              => (ret'.ok /\ out' = <<>> /\ Object' = Object)]_vars

\* A finalize has found the writer empty, after a segment was finalized.
C3_Witness ==
    /\ ret.op = "WriteVideoSegment" /\ ret.ok /\ out = <<>>
    /\ video_chunk_writer.sample_count = 0
    /\ video_sequence_number = 2

\* C4: GetManifest fails as long as no segment has been finalized on any
\* track and succeeds from the first finalized segment on.
C4_ManifestOnceStarted ==
    LET started == Len(video_finalized) + Len(audio_finalized) > 0
    IN  /\ \A now \in Times : GetPlayList(This(now), now).ok = started
        /\ ret.op = "GetPlayList" => ret.ok = started

\* The manifest has been served with one audio segment finalized and none of
\* the video track.
C4_Witness ==
    /\ ret.op = "GetPlayList" /\ ret.ok
    /\ video_track /\ Len(video_finalized) = 0
    /\ Len(audio_finalized) = 1

\* C5: a FinalizeSegment whose record the storage rejects returns failure,
\* leaves the sequence number where it was and the writer empty, and sends
\* no segment-complete notification.
C5_RejectedFinalize ==
    [][/\ (ret'.op = "WriteVideoSegment" /\ EventsIn(out', "Rejected") # <<>>)
              => /\ video_chunk_writer.sample_count > 0
                 /\ ~ret'.ok
                 /\ video_sequence_number' = video_sequence_number
                 /\ video_chunk_writer' = EmptyWriter
                 /\ EventsIn(out', "OnCmafChunkedComplete") = <<>>
       /\ (ret'.op = "WriteAudioSegment" /\ EventsIn(out', "Rejected") # <<>>)
              => /\ audio_chunk_writer.sample_count > 0
                 /\ ~ret'.ok
                 /\ audio_sequence_number' = audio_sequence_number
                 /\ audio_chunk_writer' = EmptyWriter
                 /\ EventsIn(out', "OnCmafChunkedComplete") = <<>>]_vars

\* With a sink attached, the storage has rejected a video record.
C5_Witness ==
    /\ chunked_transfer
    /\ ret.op = "WriteVideoSegment" /\ ~ret.ok
    /\ EventsOf("Rejected") # <<>>
    /\ video_chunk_writer = EmptyWriter

\* C6: during a call the sink is told of a complete segment once for every
\* record the storage took, after the storage took it, with the record's
\* file name and the kind of the track; it is told of none otherwise.
C6_CompleteOncePerStoredSegment ==
    IF chunked_transfer
    THEN /\ \A p \in Places("SetSegmentData") :
               Cardinality({c \in Places("OnCmafChunkedComplete") :
                               out[c].file_name = out[p].file_name}) = 1
         /\ \A c \in Places("OnCmafChunkedComplete") :
               /\ \E p \in Places("SetSegmentData") :
                     p < c /\ out[p].file_name = out[c].file_name
               /\ out[c].is_video = VideoOp
               /\ out[c].is_video = ~AudioOp
         /\ Cardinality(Places("OnCmafChunkedComplete")) = Cardinality(Places("SetSegmentData"))
    ELSE Places("OnCmafChunkedComplete") = {}

\* The sink has been told of a complete audio segment.
C6_Witness ==
    /\ chunked_transfer
    /\ ret.op = "WriteAudioSegment" /\ ret.ok
    /\ Len(EventsOf("OnCmafChunkedComplete")) = 1

\* C7: an AppendFrame in which the writer produces a chunk payload pushes
\* that payload to the sink once, with the kind of the track and the file
\* name of the track's current sequence number; no other call pushes.
ChunkPushed(writer, is_video, name) ==
    LET pushes == EventsOf("OnCmafChunkDataPush")
    IN  IF ret.ok /\ chunked_transfer /\ writer.pending = <<>>
        THEN /\ Len(pushes) = 1
             /\ pushes[1].data = writer.chunks[Len(writer.chunks)]
             /\ pushes[1].data[Len(pushes[1].data)] = ret.frame
             /\ pushes[1].is_video = is_video
             /\ pushes[1].file_name = name
        ELSE pushes = <<>>

C7_ChunkPushedOnce ==
    /\ ret.op = "AppendVideoFrame"
          => ChunkPushed(video_chunk_writer, TRUE,
                         NameOf(video_sequence_number, CMAF_MPD_VIDEO_FULL_SUFFIX))
    /\ ret.op = "AppendAudioFrame"
          => ChunkPushed(audio_chunk_writer, FALSE,
                         NameOf(audio_sequence_number, CMAF_MPD_AUDIO_FULL_SUFFIX))
    /\ ret.op \notin {"AppendVideoFrame", "AppendAudioFrame"}
          => EventsOf("OnCmafChunkDataPush") = <<>>

\* An audio chunk of the second segment has been pushed.
C7_Witness ==
    /\ chunked_transfer
    /\ ret.op = "AppendAudioFrame"
    /\ Len(EventsOf("OnCmafChunkDataPush")) = 1
    /\ audio_sequence_number = 2

\* C8: an AppendFrame with a frame older than the last frame accepted on
\* the track returns failure and leaves the writer as it was.
C8_OutOfOrderRefused ==
    [][/\ (ret'.op = "AppendVideoFrame" /\ ret'.frame.timestamp < video_appended)
              => (~ret'.ok /\ video_chunk_writer' = video_chunk_writer /\ out' = <<>>)
       /\ (ret'.op = "AppendAudioFrame" /\ ret'.frame.timestamp < audio_appended)
              => (~ret'.ok /\ audio_chunk_writer' = audio_chunk_writer /\ out' = <<>>)]_vars

\* A video frame older than the last accepted one has been refused.
C8_Witness ==
    /\ ret.op = "AppendVideoFrame" /\ ~ret.ok
    /\ ret.frame.timestamp < video_appended
    /\ video_chunk_writer.sample_count > 0

\* C9: the availabilityTimeOffset of the video adaptation set is D - 1/F,
\* to the three decimals the manifest writes, for a frame rate F other than
\* 0, and D for F = 0 (D the segment duration).
C9_VideoAvailabilityTimeOffset ==
    play_list.video.present =>
        IF frame_rate # 0
        THEN 2 * Abs(play_list.video.availabilityTimeOffset * frame_rate
                     - (1000 * segment_duration * frame_rate - 1000)) <= frame_rate
        ELSE play_list.video.availabilityTimeOffset = 1000 * segment_duration

\* A manifest rendered for 30 frames a second and segments of 2 seconds.
C9_Witness ==
    /\ play_list.video.present
    /\ frame_rate = 30 /\ segment_duration = 2
    /\ play_list.video.availabilityTimeOffset = 1967

\* C10: the availabilityTimeOffset of the audio adaptation set is
\* D - 1024/R, to the three decimals the manifest writes, for every sample
\* rate R other than 0, and D for R = 0.
C10_AudioAvailabilityTimeOffset ==
    play_list.audio.present =>
        IF sample_rate # 0
        THEN 2 * Abs(play_list.audio.availabilityTimeOffset * sample_rate
                     - (1000 * segment_duration * sample_rate - 1024000)) <= sample_rate
        ELSE play_list.audio.availabilityTimeOffset = 1000 * segment_duration

\* C11: in every rendered manifest, the cached one and the one a request
\* returns, the adaptation set of a track is present if and only if a
\* segment of that track has been finalized, that is, its sequence number
\* is past 1.
C11_AdaptationSetIffFinalized ==
    LET Listed(text) ==
            /\ text.video.present = (video_sequence_number > 1)
            /\ text.video.present = (Len(video_finalized) > 0)
            /\ text.audio.present = (audio_sequence_number > 1)
            /\ text.audio.present = (Len(audio_finalized) > 0)
    IN  /\ play_list.rendered => Listed(play_list)
        /\ (ret.op = "GetPlayList" /\ ret.ok) => Listed(ret.play_list)

\* With both tracks, the manifest rendered after an audio segment and before
\* any video segment lists the audio track alone.
C11_Witness ==
    /\ video_track /\ audio_track
    /\ play_list.rendered
    /\ play_list.audio.present /\ ~play_list.video.present
    /\ video_chunk_writer.sample_count > 0

\* C12: without a video track no rendered manifest has a video adaptation
\* set and no call logs the time difference of the two tracks.
C12_AudioOnly ==
    ~video_track =>
        /\ ~play_list.video.present
        /\ ret.op = "GetPlayList" => ~ret.play_list.video.present
        /\ EventsOf("TimeDifference") = <<>>

\* An audio-only stream whose manifest has been rendered twice and served.
C12_Witness ==
    /\ ~video_track
    /\ audio_sequence_number = 3
    /\ last_audio_pts >= 0
    /\ ret.op = "GetPlayList" /\ ret.ok /\ ret.play_list.audio.present

\* The fields of a manifest other than the publish time.
BesidesPublishTime(text) ==
    [rendered |-> text.rendered, video |-> text.video, audio |-> text.audio,
     utcTiming |-> text.utcTiming]

Served(r) == r.op = "GetPlayList" /\ r.ok

C14_FinalizeAtomic ==
    running.pc = "Clear" =>
        LET writer == IF running.is_video THEN video_chunk_writer ELSE audio_chunk_writer
        IN  /\ GetChunkedSegment(writer) = running.segment_data
            /\ writer.start_timestamp = running.start_timestamp
            /\ writer.segment_duration = running.segment_duration

\* C15: once the finalizes of both tracks have completed, the cached
\* manifest lists every track that has a finalized segment.
C15_ManifestReflectsBothTracks ==
    (running = Idle /\ play_list.rendered) =>
        /\ play_list.video.present = (video_sequence_number > 1)
        /\ play_list.audio.present = (audio_sequence_number > 1)

\* C16: every AppendFrame and FinalizeSegment call completes, whatever the
\* sink does.
C16_CallsComplete == (running # Idle) ~> (running = Idle)

\* The call has handed a segment to the storage.
Closes(events) == \E i \in DOMAIN events : events[i].event \in {"SetSegmentData", "Rejected"}

\* The segment handed to the storage is the one fragment the writer held.
OneFragment(events, writer, records) ==
    \A i \in DOMAIN events :
        /\ events[i].event \in {"SetSegmentData", "Rejected"}
              => events[i].data = GetChunkedSegment(writer)
        /\ events[i].event = "SetSegmentData"
              => records = <<[file_name |-> events[i].file_name,
                              duration |-> writer.segment_duration,
                              timestamp |-> writer.start_timestamp,
                              data |-> GetChunkedSegment(writer)]>>

Persisted(events, writer, chunks, count) ==
    \A i \in DOMAIN events :
        events[i].event = "SetSegmentData"
            => /\ events[i].data = chunks
               /\ writer.sample_count = count

\* C18: the payload a successful FinalizeSegment hands to the storage is
\* the concatenation, in order, of the chunk payloads the writer has emitted
\* since it was last cleared, which with a sink are the payloads pushed to
\* the sink; after the finalize the writer holds no sample (one, the new
\* sample, when the finalize is part of an AppendFrame).
C18_PayloadIsChunksPushed ==
    [][/\ ret'.op \in {"AppendVideoFrame", "WriteVideoSegment"}
              => /\ Persisted(out', video_chunk_writer', Concat(video_chunk_writer.chunks),
                              IF ret'.op = "WriteVideoSegment" THEN 0 ELSE 1)
                 /\ chunked_transfer
                        => Persisted(out', video_chunk_writer', Concat(chunks_pushed.video),
                                     IF ret'.op = "WriteVideoSegment" THEN 0 ELSE 1)
       /\ ret'.op \in {"AppendAudioFrame", "WriteAudioSegment"}
              => /\ Persisted(out', audio_chunk_writer', Concat(audio_chunk_writer.chunks),
                              IF ret'.op = "WriteAudioSegment" THEN 0 ELSE 1)
                 /\ chunked_transfer
                        => Persisted(out', audio_chunk_writer', Concat(chunks_pushed.audio),
                                     IF ret'.op = "WriteAudioSegment" THEN 0 ELSE 1)]_vars

\* With a sink, a video segment of two samples has been handed to the
\* storage and the writer is empty.
C18_Witness ==
    /\ chunked_transfer
    /\ ret.op = "WriteVideoSegment" /\ ret.ok
    /\ \E i \in DOMAIN out : out[i].event = "SetSegmentData" /\ Len(out[i].data) = 2
    /\ video_chunk_writer.sample_count = 0
    /\ chunks_pushed.video = <<>>

\* What finalizes have left in the object.
FinalizedState ==
    <<video_sequence_number, audio_sequence_number, video_segments, audio_segments,
      streaming_start, play_list>>

\* C19: an AppendFrame that fails leaves the sequence numbers of both
\* tracks, the stored segment records and the cached manifest as they were,
\* and hands nothing to the storage or the sink.
C19_FailedAppendKeepsFinalized ==
    [][(ret'.op \in {"AppendVideoFrame", "AppendAudioFrame"} /\ ~ret'.ok)
           => /\ FinalizedState' = FinalizedState
              /\ video_finalized' = video_finalized
              /\ audio_finalized' = audio_finalized
              /\ out' = <<>>]_vars

\* A video frame has been refused with a segment of each track finalized
\* and samples in the video writer.
C19_Witness ==
    /\ ret.op = "AppendVideoFrame" /\ ~ret.ok
    /\ video_sequence_number = 2 /\ audio_sequence_number = 2
    /\ Len(video_segments) = 1 /\ Len(audio_segments) = 1
    /\ play_list.video.present /\ play_list.audio.present
    /\ video_chunk_writer.sample_count > 0

\* C20: the last timestamp of a track is the timestamp of the last sample
\* that reached its writer, with or without a chunk and with or without a
\* sink; the time difference is logged only in a call that updates the
\* manifest, and only when both tracks had a last timestamp.
C20_LastTimestamp ==
    /\ last_video_pts = video_appended
    /\ last_audio_pts = audio_appended
    /\ (ret.op = "AppendVideoFrame" /\ ret.ok) => last_video_pts = ret.frame.timestamp
    /\ (ret.op = "AppendAudioFrame" /\ ret.ok) => last_audio_pts = ret.frame.timestamp
    /\ \A i \in Places("TimeDifference") :
          /\ out[i].video_pts >= 0
          /\ out[i].audio_pts >= 0
          /\ video_appended >= 0 /\ audio_appended >= 0
          /\ i > 1 /\ out[i - 1].event = "SetSegmentData"

\* Without a sink and without a chunk, a video sample with timestamp 1 has
\* reached the writer, in a call that updated the manifest and logged the
\* time difference of the two tracks.
C20_Witness ==
    /\ ~chunked_transfer
    /\ ret.op = "AppendVideoFrame" /\ ret.ok /\ ret.frame.timestamp = 1
    /\ video_chunk_writer.pending # <<>>
    /\ last_video_pts = 1 /\ last_audio_pts = 0
    /\ \E i \in Places("TimeDifference") : out[i].difference = 0

\* What a call does to a fragment, read off its events: a chunk of the
\* fragment goes to the sink, or the fragment leaves the writer on its way
\* to the storage (accepted or rejected).
IsPush(e, is_video) == e.event = "OnCmafChunkDataPush" /\ e.is_video = is_video

IsClose(e, is_video) == e.event \in {"SetSegmentData", "Rejected"} /\ e.is_video = is_video

IsComplete(e, is_video) == e.event = "OnCmafChunkedComplete" /\ e.is_video = is_video

\* C21: over the events of two consecutive calls, for each track: a chunk
\* pushed after the fragment of an earlier chunk has been finalized,
\* successfully or not, carries another file name than that earlier chunk,
\* and no chunk is pushed under a file name after the sink has been told
\* that the segment of that name is complete.
C21_FileNameOfOneFragment ==
    [][LET calls == out \o out'
       IN  \A is_video \in BOOLEAN : \A j, k \in DOMAIN calls :
               (j < k /\ IsPush(calls[k], is_video))
                   => /\ IsComplete(calls[j], is_video)
                          => calls[k].file_name # calls[j].file_name
                      /\ IsClose(calls[j], is_video)
                          => \A i \in 1..(j - 1) :
                                 IsPush(calls[i], is_video)
                                     => calls[k].file_name # calls[i].file_name]_vars

\* The same object constructed with the other choice of sink.
OtherSink(s) == [s EXCEPT !.chunked_transfer = ~@]

IsSinkCall(e) == e.event \in {"OnCmafChunkDataPush", "OnCmafChunkedComplete"}

\* What a call returns and leaves in the object, and what it hands to the
\* storage and the log: everything but the sink and the calls made on it.
Own(r) ==
    [ok |-> r.ok,
     st |-> [r.st EXCEPT !.chunked_transfer = FALSE,
                         !.out = SelectSeq(@, LAMBDA e : ~IsSinkCall(e))]]

\* C22: in every state the object reaches, with a sink or without one,
\* every call (every frame, every choice of the writer to emit a chunk,
\* and where the call writes a segment every answer of the storage and
\* every reading of the clock) returns the
\* same value and leaves the same sequence numbers, last timestamps,
\* writers, stored segments and manifest as the same call on the same
\* object with the other choice of sink; the two differ only in the calls
\* made on the sink.  The two objects are equal but for the sink after
\* construction, so by induction they are after every sequence of calls.
C22_SinkIndependent ==
    /\ \A now \in Times :
          GetPlayList(This(now), now) = GetPlayList(OtherSink(This(now)), now)
    /\ video_track =>
          /\ \A accept \in Answers(video_chunk_writer, FALSE),
                now \in Readings(video_chunk_writer, FALSE) :
                   Own(WriteVideoSegment(This(now), accept))
                       = Own(WriteVideoSegment(OtherSink(This(now)), accept))
          /\ \A frame \in Frames, emit \in BOOLEAN,
                accept \in Answers(video_chunk_writer, TRUE),
                now \in Readings(video_chunk_writer, TRUE) :
                   Own(AppendVideoFrame(This(now), frame, emit, accept))
                       = Own(AppendVideoFrame(OtherSink(This(now)), frame, emit, accept))
    /\ audio_track =>
          /\ \A accept \in Answers(audio_chunk_writer, FALSE),
                now \in Readings(audio_chunk_writer, FALSE) :
                   Own(WriteAudioSegment(This(now), accept))
                       = Own(WriteAudioSegment(OtherSink(This(now)), accept))
          /\ \A frame \in Frames, emit \in BOOLEAN,
                accept \in Answers(audio_chunk_writer, TRUE),
                now \in Readings(audio_chunk_writer, TRUE) :
                   Own(AppendAudioFrame(This(now), frame, emit, accept))
                       = Own(AppendAudioFrame(OtherSink(This(now)), frame, emit, accept))

\* With a sink, the audio writer holds a whole segment and the video track
\* has a last timestamp: the next AppendAudioFrame tells the sink that the
\* segment is complete and pushes a chunk, which the same call without a
\* sink does not, and logs the time difference of the tracks.
C22_Witness ==
    /\ chunked_transfer /\ video_track /\ audio_track
    /\ last_video_pts >= 0
    /\ \E frame \in Frames :
          LET events == AppendAudioFrame(This(0), frame, TRUE, TRUE).st.out
              others == AppendAudioFrame(OtherSink(This(0)), frame, TRUE, TRUE).st.out
          IN  /\ \E i \in DOMAIN events : events[i].event = "OnCmafChunkedComplete"
              /\ \E i \in DOMAIN events : events[i].event = "OnCmafChunkDataPush"
              /\ \E i \in DOMAIN events : events[i].event = "TimeDifference"
              /\ \A i \in DOMAIN others : ~IsSinkCall(others[i])
              /\ others # <<>>

\* The state of one track.
VideoState == <<video_chunk_writer, video_sequence_number, last_video_pts>>

AudioState == <<audio_chunk_writer, audio_sequence_number, last_audio_pts>>

\* C23: an AppendFrame or a FinalizeSegment on the video track, whatever
\* it returns, leaves the audio writer, the audio sequence number and the
\* audio last timestamp as they were, and one on the audio track leaves
\* the video writer, the video sequence number and the video last
\* timestamp as they were.
C23_OtherTrackUnchanged ==
    [][/\ ret'.op \in {"AppendVideoFrame", "WriteVideoSegment"} => AudioState' = AudioState
       /\ ret'.op \in {"AppendAudioFrame", "WriteAudioSegment"} => VideoState' = VideoState]_vars

\* A video segment has been finalized, which advanced the video sequence
\* number and cleared the video writer, while the audio track is in its
\* second segment with a sample in its writer.
C23_Witness ==
    /\ ret.op = "WriteVideoSegment" /\ ret.ok
    /\ video_sequence_number = 2
    /\ video_chunk_writer.sample_count = 0
    /\ \E i \in DOMAIN out : out[i].event = "SetSegmentData" /\ out[i].is_video
    /\ audio_sequence_number = 2
    /\ audio_chunk_writer.sample_count = 1
    /\ last_audio_pts = 1

\* The value of a macro as claimed: the variable's value when it is set,
\* otherwise the default value, which is the empty string when none or an
\* empty one is written.
ValueOrDefault(piece) ==
    IF environ[piece.key] # Null THEN environ[piece.key].str ELSE piece.default_value

\* The same, with the host name for HOSTNAME when the variable is not set
\* and gethostname gives a name.
ValueOrHostNameOrDefault(piece) ==
    IF environ[piece.key] # Null THEN environ[piece.key].str
    ELSE IF piece.key = HOSTNAME /\ host_name # Null THEN host_name.str
    ELSE piece.default_value

NoMacro(pieces) == \A i \in DOMAIN pieces : ~pieces[i].macro

\* C24 as stated: the result is the value as written, piece by piece in
\* order, with every text unchanged and every macro replaced by the value
\* of its variable when it is set, otherwise by its non-empty default
\* value, otherwise by the empty string; a value without a macro is
\* returned unchanged.
C24_MacrosReplaced ==
    LET pieces == preprocessed.pieces
    IN  preprocessed.called
            => /\ preprocessed.result
                      = Concat([i \in DOMAIN pieces |->
                                   IF pieces[i].macro THEN ValueOrDefault(pieces[i])
                                   ELSE pieces[i].text])
               /\ NoMacro(pieces) => preprocessed.result = preprocessed.value

\* C24, amended: as above, but a macro whose key is HOSTNAME is replaced,
\* when the variable HOSTNAME is not set and gethostname succeeds, by the
\* host name, whatever default value is written; the text that replaces a
\* macro is not looked at for further macros.
C24_MacrosReplacedOrHostName ==
    LET pieces == preprocessed.pieces
    IN  preprocessed.called
            => /\ preprocessed.result
                      = Concat([i \in DOMAIN pieces |->
                                   IF pieces[i].macro THEN ValueOrHostNameOrDefault(pieces[i])
                                   ELSE pieces[i].text])
               /\ NoMacro(pieces) => preprocessed.result = preprocessed.value

\* A text, the HOSTNAME macro with a default value and the K macro have
\* been preprocessed with HOSTNAME not set, a host name of "ome" and K
\* holding a text with a macro in it: the result is the text, the host
\* name and K's value as it is.
C24_Witness ==
    /\ preprocessed.called
    /\ environ[HOSTNAME] = Null
    /\ host_name = Str(<<"o", "m", "e">>)
    /\ environ[K] = Str(<<"x">> \o EnvPrefix \o K \o <<"}">>)
    /\ preprocessed.pieces
           = <<Text(<<"a">>), Macro(HOSTNAME, TRUE, <<"d", ":", "e">>), Macro(K, FALSE, <<>>)>>
    /\ preprocessed.value
           = <<"a">> \o EnvPrefix \o HOSTNAME \o <<":", "d", ":", "e", "}">>
                 \o EnvPrefix \o K \o <<"}">>
    /\ preprocessed.result = <<"a", "o", "m", "e", "x">> \o EnvPrefix \o K \o <<"}">>

====
